---- MODULE Spec2Model ----
(***************************************************************************)
(* Fast Delivery - Hilla (src/main.py): the UAV registry UAVS, the         *)
(* movement thread uav_movement_loop, the POST /order handler create_order *)
(* and the order log, as one state machine.                                *)
(*                                                                         *)
(* Units.  Python floats become fixed-point integers:                      *)
(*   latitude, longitude   microdegrees (1e-6 degree)                      *)
(*   distances             centimetres                                     *)
(*   ETA                   milliminutes (1e-3 minute)                      *)
(* Threads interleave at the granularity of one read or one write of a     *)
(* field of a UAV dictionary (one bytecode under the interpreter lock).    *)
(***************************************************************************)
EXTENDS Integers, Sequences, FiniteSets, TLC

\* ------------------------------------------------------------ constants

\* LAT_MIN, LAT_MAX, LON_MIN, LON_MAX in microdegrees.
LAT_MIN == 32100000
LAT_MAX == 32800000
LON_MIN == 44100000
LON_MAX == 44800000

GRID_KM == 5
KM_PER_DEG_LAT == 111
KM_PER_DEG_LON == 94

UAV_SPEED_KMH == 40
\* STEP_TIME, seconds.
STEP_TIME == 1

\* range(0, 10) in init_uavs: the grid is GRID_N x GRID_N cells.
GRID_N == 10

\* R of haversine, km.
EARTH_R_KM == 6371

\* A faulty arrival threshold: 60 m.
WideArrival == 6 * 1000

\* The arrival threshold `dist < 0.05` (km) in centimetres.
ARRIVE_CM == 5000

UdegPerDeg == 1000 * 1000
CmPerKm == 100 * 1000

\* A missing value: Python's None (a target, a geocoding result).
None == << >>

\* ------------------------------------------------------------ arithmetic

Abs(x) == IF x < 0 THEN -x ELSE x

\* a / b rounded to the nearest integer, symmetric in the sign of a (b > 0).
RoundDiv(a, b) ==
    IF a >= 0 THEN (2 * a + b) \div (2 * b) ELSE -((2 * (-a) + b) \div (2 * b))

SqrtSearch[n \in Nat, lo \in Nat, hi \in Nat] ==
    IF lo >= hi THEN lo
    ELSE LET mid == (lo + hi + 1) \div 2
         IN  IF mid * mid <= n THEN SqrtSearch[n, mid, hi]
             ELSE SqrtSearch[n, lo, mid - 1]

\* math.sqrt on integers: the largest r with r * r <= n.
ISqrt(n) == SqrtSearch[n, 0, 46340]

\* sqrt(a^2 + b^2) without leaving 32 bits.
RECURSIVE Hyp(_, _)
Hyp(a, b) ==
    IF a < 32768 /\ b < 32768 THEN ISqrt(a * a + b * b)
    ELSE 10 * Hyp(a \div 10, b \div 10)

\* Centimetres of arc per microdegree, times 1000: R * pi / 180 (pi = 355/113).
CmPerUdegE3 == ((((EARTH_R_KM * 355) \div 113) * 1000) \div 1800)

\* math.cos(math.radians(lat)) times 10^4, linearised at the centre of the
\* service area (32.45 degrees): exact to 1e-4 over [LAT_MIN, LAT_MAX].
CosE4(lat) == 8439 - ((936 * (lat - 32450000)) \div (10 * UdegPerDeg))

\* haversine(lat1, lon1, lat2, lon2) in centimetres.  For the angles of the
\* service area (below 0.7 degree) sin x and asin x equal x to 3e-5, so
\* 2 R asin(sqrt(a)) is R sqrt(dlat^2 + cos(lat1) cos(lat2) dlon^2).
Haversine(lat1, lon1, lat2, lon2) ==
    LET dy   == (Abs(lat2 - lat1) * CmPerUdegE3) \div 1000
        dxr  == (Abs(lon2 - lon1) * CmPerUdegE3) \div 1000
        c    == ISqrt(CosE4(lat1) * CosE4(lat2))
        dx   == (dxr * c) \div 10000
    IN  Hyp(dy, dx)

\* A faulty step length: 70 m, more than the arrival threshold.
LongStep == 7 * 1000

\* step_km = (UAV_SPEED_KMH / 3600.0) * STEP_TIME, in centimetres.
StepCm == (UAV_SPEED_KMH * STEP_TIME * CmPerKm) \div 3600

\* A faulty eta: hours taken for minutes (the factor 60 is lost).
EtaHours(dist) == (dist * 1000) \div (UAV_SPEED_KMH * CmPerKm)

\* eta_min = (dist / UAV_SPEED_KMH) * 60.0, in milliminutes.
EtaMin(dist) == (dist * 60 * 1000) \div (UAV_SPEED_KMH * CmPerKm)

\* round(x, 2) and round(x, 1) of a value in milliminutes.
Round2(x) == RoundDiv(x, 10) * 10
Round1(x) == RoundDiv(x, 100) * 100

\* ------------------------------------------------------------ grid

\* latlon_to_grid: floor division of the equirectangular offsets.
LatLonToGrid(lat, lon) ==
    << ((lon - LON_MIN) * KM_PER_DEG_LON) \div (GRID_KM * UdegPerDeg),
       ((lat - LAT_MIN) * KM_PER_DEG_LAT) \div (GRID_KM * UdegPerDeg) >>

\* The keys of UAVS after init_uavs: UAV_{gx}_{gy} is the pair <<gx, gy>>.
GridCells == (0 .. GRID_N - 1) \X (0 .. GRID_N - 1)

\* init_uavs: the centre of cell <<gx, gy>>.
CenterLat(gy) == LAT_MIN + (((2 * gy + 1) * GRID_KM * UdegPerDeg) \div (2 * KM_PER_DEG_LAT))
CenterLon(gx) == LON_MIN + (((2 * gx + 1) * GRID_KM * UdegPerDeg) \div (2 * KM_PER_DEG_LON))

\* A faulty boundary check: the longitude is not looked at.
LatInServiceArea(lat, lon) == LAT_MIN <= lat /\ lat <= LAT_MAX

\* The boundary check of create_order.
InServiceArea(lat, lon) ==
    LAT_MIN <= lat /\ lat <= LAT_MAX /\ LON_MIN <= lon /\ lon <= LON_MAX

\* ------------------------------------------------------------ bounds

\* Orders posted in one run; each is handled by a thread of its own.
MaxOrders == 2

Orders == 1 .. MaxOrders

\* The threads of the server's pool that run create_order in the model: at
\* most that many handlers are in flight at once.
HandlerThreads == { "t1", "t2" }

\* What geocode_osm may return for the places of the model: a point about
\* 29 m from the centre of cell <<0, 0>> (below the arrival threshold), a
\* second point of that cell, 31 m from its centre and 51 m from the first, a
\* point about 54 m from the centre of cell <<6, 7>> (one move, then the
\* arrival), the corner (LAT_MAX, LON_MAX) of the service area, a point
\* west of it.  A second order for the place its UAV has
\* reached is an order at distance 0.
PlaceNear    == << CenterLat(0) + 200, CenterLon(0) + 200 >>
PlaceAlso    == << CenterLat(0) - 250, CenterLon(0) + 150 >>
PlaceFar     == << CenterLat(7) + 330, CenterLon(6) + 420 >>
PlaceCorner  == << LAT_MAX, LON_MAX >>
PlaceOutside == << 32616000, 44024000 >>

Places == { PlaceNear, PlaceAlso, PlaceFar, PlaceCorner, PlaceOutside }

\* The queries geocode_osm makes of one place text, tried in this order.
NumQueries == 4

\* What one requests.get of geocode_osm may come to: a 200 answer with a
\* first match, a 200 answer with an empty list, or anything that skips the
\* query (a timeout, another exception, a status other than 200).
Empty == << "empty" >>
Failure == << "error" >>
QueryAnswers == Places \cup { Empty, Failure }

\* geocode_osm goes on with its next query.
NextQuery == << "next" >>

\* A faulty geocode_osm: it gives up at the first query without a match.
GiveUpEarly(q, a) == IF a \in Places THEN a ELSE None

\* geocode_osm after the answer a to its query number q: (lat, lon) of the
\* match, NextQuery to go on with the following query, None after the last.
GeocodeOsm(q, a) ==
    IF a \in Places THEN a
    ELSE IF q < NumQueries THEN NextQuery
    ELSE None

\* The UAVs an order of the model can be assigned to.  Every other UAV of the
\* grid stays idle with no target for ever, and the movement loop's visit of
\* it reads that and does nothing: the model leaves those visits out.
Fleet ==
    { c \in GridCells :
        \E p \in Places : InServiceArea(p[1], p[2]) /\ LatLonToGrid(p[1], p[2]) = c }

\* The place of a UAV in the iteration order of UAVS.values() (insertion
\* order of init_uavs: gx outer, gy inner).
Rank(c) == c[1] * GRID_N + c[2]
FirstUav == CHOOSE c \in Fleet : \A d \in Fleet : Rank(c) <= Rank(d)
HasNext(c) == \E d \in Fleet : Rank(d) > Rank(c)
NextUav(c) ==
    CHOOSE d \in Fleet :
        Rank(d) > Rank(c) /\ \A e \in Fleet : Rank(e) > Rank(c) => Rank(d) <= Rank(e)

\* ------------------------------------------------------------ state

VARIABLES
    UAVS,        \* uav id -> [lat, lon, status, target]; a target is None or
                 \* <<lat, lon, the order that made the dictionary>>
    loop,        \* the movement thread: [pc, u, t, dist]
    req,         \* order -> the handler thread's position and locals
    orders_log,  \* orders_log.csv: the rows appended, in file order
    calm,        \* history: order -> the UAV's record before an undisturbed call
    conv,        \* history: uav id -> the assignment whose ticks are counted
    overlap,     \* history: the pairs of orders whose handlers ran at once
    get,         \* the thread answering GET /uavs: [pc, u, rec, n]
    held,        \* history: the records the UAV being encoded has held
    heard        \* history: <<o, q, a>> right after query q of order o was
                 \* answered a, None after any other step

vars == << UAVS, loop, req, orders_log, calm, conv, overlap, get, held, heard >>

\* A faulty init_uavs: gx and gy taken for one another.
SwappedInitUav(c) ==
    [ lat |-> CenterLat(c[1]), lon |-> CenterLon(c[2]),
      status |-> "idle", target |-> None ]

\* init_uavs: one idle UAV at the centre of each cell.
InitUav(c) ==
    [ lat |-> CenterLat(c[2]), lon |-> CenterLon(c[1]),
      status |-> "idle", target |-> None ]

NoResponse == [ status |-> "none" ]

\* A request that has not arrived, and the locals of a handler that returned.
NoRequest ==
    [ pc |-> "none", q |-> 0, pos |-> None, cell |-> None, ulat |-> 0, ulon |-> 0,
      eta |-> 0, resp |-> NoResponse ]

\* No GET /uavs is being answered; n counts the ones answered.
NoListing(n) == [ pc |-> "none", u |-> FirstUav, rec |-> None, n |-> n ]

Init ==
    /\ UAVS = [ c \in Fleet |-> InitUav(c) ]
    /\ loop = [ pc |-> "check", u |-> FirstUav, t |-> None, dist |-> 0 ]
    /\ req = [ o \in Orders |-> NoRequest ]
    /\ orders_log = << >>
    /\ calm = [ o \in Orders |-> None ]
    /\ conv = [ c \in Fleet |-> None ]
    /\ overlap = { }
    /\ get = NoListing(0)
    /\ held = { }
    /\ heard = None

\* ------------------------------------------------------------ history

\* The movement loop is in its body for UAV v: past the check that found a
\* target, not past its last write of the tick.
LoopAt(lp, v) ==
    /\ lp.u = v
    /\ lp.pc \in { "read_target", "arrive_lat", "arrive_lon", "arrive_status",
                   "arrive_target", "move_lat", "move_lon" }
LoopOn(v) == LoopAt(loop, v)

\* The handler of order o is between its first read of UAV v (the ETA) and
\* its last write to it (status := delivering).
HandlerAt(r, v) ==
    /\ r.cell = v
    /\ r.pc \in { "eta_lon", "assign_target", "assign_status" }
HandlerOn(o, v) == HandlerAt(req[o], v)

\* The handler of order o has read or written its UAV and has not returned.
InCallAt(r) ==
    r.pc \in { "eta_lon", "assign_target", "assign_status", "log", "respond" }
InCall(o) == InCallAt(req[o])

\* ceil(a / b) for a >= 0, b > 0.
CeilDiv(a, b) == (a + b - 1) \div b

\* The tick counter of conv stops at this value.
TickCap == 8

\* The orders whose handler is running, in a value r of req.
Running(r) == { o \in Orders : r[o].pc \notin { "none", "done", "KeyError" } }

\* What a listing shows of a UAV record: a target shows as its position.
Shown(u) ==
    [ lat |-> u.lat, lon |-> u.lon, status |-> u.status,
      target |-> IF u.target = None THEN None ELSE << u.target[1], u.target[2] >> ]

\* The history variables, read off the step just taken; they guard nothing.
\*   overlap holds {o, q} once the handlers of o and q have been running at
\*     the same time.
\*   calm[o] is <<r>> while the handler of o runs (from its first read of its
\*     UAV to its return), found that UAV idle with record r, and neither the
\*     loop nor another handler has been at work on that UAV since.
\*   conv[v] is <<p, d, n>> when the last write to v by a handler completed an
\*     assignment of target p, at distance d, while the loop was not at work
\*     on v; n counts the ticks that have moved or retired v since.
\*   heard is written by the step that answers a geocoding query.
\*   held is the set of records UAV get.u has held from the read of its
\*     first field by the encoder of GET /uavs to the read of its last.
Observe ==
    /\ overlap' = overlap \cup
         { pq \in SUBSET Running(req') : Cardinality(pq) = 2 }
    /\ calm' =
         [ o \in Orders |->
             LET v == req'[o].cell
                 free == /\ ~LoopAt(loop', v)
                         /\ \A q \in Orders \ { o } : ~HandlerAt(req'[q], v)
             IN  IF ~InCallAt(req'[o]) THEN None
                 ELSE IF req[o].pc = "eta_lat"
                 THEN IF free /\ UAVS[v].status = "idle" /\ UAVS[v].target = None
                      THEN << UAVS[v] >> ELSE None
                 ELSE IF free THEN calm[o] ELSE None ]
    /\ conv' =
         [ v \in Fleet |->
             IF \E o \in Orders :
                  req[o].cell = v /\ req[o].pc = "assign_target" /\ req'[o].pc # req[o].pc
             THEN None
             ELSE IF \E o \in Orders :
                  req[o].cell = v /\ req[o].pc = "assign_status" /\ req'[o].pc # req[o].pc
             THEN IF ~LoopOn(v) /\ UAVS'[v].target # None
                     /\ \A q \in Orders : req'[q].cell = v => req'[q].pc # "assign_status"
                  THEN << UAVS'[v].target,
                          Haversine(UAVS'[v].lat, UAVS'[v].lon,
                                    UAVS'[v].target[1], UAVS'[v].target[2]),
                          0 >>
                  ELSE None
             ELSE IF conv[v] # None /\ LoopAt(loop, v) /\ ~LoopAt(loop', v)
             THEN << conv[v][1], conv[v][2],
                     IF conv[v][3] < TickCap THEN conv[v][3] + 1 ELSE TickCap >>
             ELSE conv[v] ]
    /\ IF \E o \in Orders : req[o].pc = "geocode" /\ req'[o] # req[o]
       THEN TRUE
       ELSE heard' = None
    /\ held' =
         IF get.pc = "lat" /\ get'.pc = "lon" THEN { Shown(UAVS[get.u]) }
         ELSE IF get'.pc \in { "lon", "status", "target" }
         THEN held \cup { Shown(UAVS'[get'.u]) }
         ELSE IF get'.pc = "emit" THEN held
         ELSE { }

\* ------------------------------------------------------------ movement loop

\* The loop is done with UAV loop.u: on to the next one, or to time.sleep.
LoopAdvance ==
    IF HasNext(loop.u)
    THEN [ pc |-> "check", u |-> NextUav(loop.u), t |-> None, dist |-> 0 ]
    ELSE [ pc |-> "sleep", u |-> FirstUav, t |-> None, dist |-> 0 ]

\* if u["target"] is not None
CheckTarget ==
    /\ loop.pc = "check"
    /\ loop' = IF UAVS[loop.u].target # None
               THEN [ loop EXCEPT !.pc = "read_target" ]
               ELSE LoopAdvance
    /\ UNCHANGED << UAVS, req, orders_log, get >>
    /\ Observe

\* t = u["target"]; dist = haversine(u["lat"], u["lon"], t["lat"], t["lon"]);
\* if dist < 0.05.  One step: only this thread writes lat and lon, so reading
\* them commutes with every step of the other threads.
ReadTarget ==
    /\ loop.pc = "read_target"
    /\ LET t == UAVS[loop.u].target
           d == Haversine(UAVS[loop.u].lat, UAVS[loop.u].lon, t[1], t[2])
       IN  loop' = [ loop EXCEPT !.t = t, !.dist = d,
                                 !.pc = IF d < ARRIVE_CM THEN "arrive_lat" ELSE "move_lat" ]
    /\ UNCHANGED << UAVS, req, orders_log, get >>
    /\ Observe

\* u["lat"] = t["lat"]
ArriveLat ==
    /\ loop.pc = "arrive_lat"
    /\ UAVS' = [ UAVS EXCEPT ![loop.u].lat = loop.t[1] ]
    /\ loop' = [ loop EXCEPT !.pc = "arrive_lon" ]
    /\ UNCHANGED << req, orders_log, get >>
    /\ Observe

\* u["lon"] = t["lon"]
ArriveLon ==
    /\ loop.pc = "arrive_lon"
    /\ UAVS' = [ UAVS EXCEPT ![loop.u].lon = loop.t[2] ]
    /\ loop' = [ loop EXCEPT !.pc = "arrive_status" ]
    /\ UNCHANGED << req, orders_log, get >>
    /\ Observe

\* u["status"] = "idle"
ArriveStatus ==
    /\ loop.pc = "arrive_status"
    /\ UAVS' = [ UAVS EXCEPT ![loop.u].status = "idle" ]
    /\ loop' = [ loop EXCEPT !.pc = "arrive_target" ]
    /\ UNCHANGED << req, orders_log, get >>
    /\ Observe

\* u["target"] = None
ArriveTarget ==
    /\ loop.pc = "arrive_target"
    /\ UAVS' = [ UAVS EXCEPT ![loop.u].target = None ]
    /\ loop' = LoopAdvance
    /\ UNCHANGED << req, orders_log, get >>
    /\ Observe

\* A faulty step: a twentieth of the step length per tick.
SlowStep(x, tx, dist) == x + RoundDiv((tx - x) * StepCm, 20 * dist)

\* The new coordinate: x + (t - x) * step_km / dist.
Step(x, tx, dist) == x + RoundDiv((tx - x) * StepCm, dist)

\* u["lat"] += (t["lat"] - u["lat"]) * step_km / dist
MoveLat ==
    /\ loop.pc = "move_lat"
    /\ UAVS' = [ UAVS EXCEPT ![loop.u].lat = Step(@, loop.t[1], loop.dist) ]
    /\ loop' = [ loop EXCEPT !.pc = "move_lon" ]
    /\ UNCHANGED << req, orders_log, get >>
    /\ Observe

\* A faulty second half of a move: it also retires the UAV.
MoveLonAndIdle ==
    /\ loop.pc = "move_lon"
    /\ UAVS' = [ UAVS EXCEPT ![loop.u].lon = Step(@, loop.t[2], loop.dist),
                             ![loop.u].status = "idle" ]
    /\ loop' = LoopAdvance
    /\ UNCHANGED << req, orders_log, get >>
    /\ Observe

\* u["lon"] += (t["lon"] - u["lon"]) * step_km / dist
MoveLon ==
    /\ loop.pc = "move_lon"
    /\ UAVS' = [ UAVS EXCEPT ![loop.u].lon = Step(@, loop.t[2], loop.dist) ]
    /\ loop' = LoopAdvance
    /\ UNCHANGED << req, orders_log, get >>
    /\ Observe

\* time.sleep(STEP_TIME) returns and the next pass over the UAVs begins.
Wake ==
    /\ loop.pc = "sleep"
    /\ loop' = [ loop EXCEPT !.pc = "check" ]
    /\ UNCHANGED << UAVS, req, orders_log, get >>
    /\ Observe

\* ------------------------------------------------------------ POST /order

\* The handler of order o returns `resp`: its locals are gone.
Return(o, resp) == [ req EXCEPT ![o] = [ NoRequest EXCEPT !.pc = "done", !.resp = resp ] ]

\* The orders whose handler is running.
InFlight == Running(req)

\* A POST /order arrives, a free thread of the pool takes it and calls
\* geocode_osm.  Orders are numbered in the order of their arrival.
Post(o) ==
    /\ req[o].pc = "none"
    /\ \A q \in Orders : q < o => req[q].pc # "none"
    /\ Cardinality(InFlight) < Cardinality(HandlerThreads)
    /\ req' = [ req EXCEPT ![o].pc = "geocode", ![o].q = 1 ]
    /\ UNCHANGED << UAVS, loop, orders_log, get >>
    /\ Observe

\* lat, lon = geocode_osm(order.place); if lat is None: return failed.
\* One step for each requests.get: the handler is blocked in it until the
\* answer comes, and goes on to the next query, to the boundary check, or
\* returns failed.
Geocode(o) ==
    /\ req[o].pc = "geocode"
    /\ \E a \in QueryAnswers :
         LET r == GeocodeOsm(req[o].q, a)
         IN  /\ req' = IF r = NextQuery THEN [ req EXCEPT ![o].q = @ + 1 ]
                       ELSE IF r = None
                       THEN Return(o, [ order_id |-> o, status |-> "failed",
                                        reason |-> "Location not found" ])
                       ELSE [ req EXCEPT ![o].pc = "locate", ![o].q = 0, ![o].pos = r ]
             /\ heard' = << o, req[o].q, a >>
    /\ UNCHANGED << UAVS, loop, orders_log, get >>
    /\ Observe

\* if not (LAT_MIN <= lat <= LAT_MAX and LON_MIN <= lon <= LON_MAX): return
\* rejected; gx, gy = latlon_to_grid(lat, lon); uav = UAVS[uav_id]: a KeyError
\* when init_uavs made no UAV for the cell, which ends the handler without a
\* response of its own.  One step: it reads and writes only the thread's locals.
Locate(o) ==
    /\ req[o].pc = "locate"
    /\ LET c == LatLonToGrid(req[o].pos[1], req[o].pos[2])
       IN  req' = IF ~InServiceArea(req[o].pos[1], req[o].pos[2])
                  THEN Return(o, [ order_id |-> o, status |-> "rejected",
                                   reason |-> "Outside service area",
                                   location |-> req[o].pos ])
                  ELSE IF c \in GridCells
                  THEN [ req EXCEPT ![o].pc = "eta_lat", ![o].cell = c ]
                  ELSE [ req EXCEPT ![o] = [ NoRequest EXCEPT !.pc = "KeyError" ] ]
    /\ UNCHANGED << UAVS, loop, orders_log, get >>
    /\ Observe

\* haversine(uav["lat"], ...): the first argument is read
EtaLat(o) ==
    /\ req[o].pc = "eta_lat"
    /\ req' = [ req EXCEPT ![o].pc = "eta_lon", ![o].ulat = UAVS[req[o].cell].lat ]
    /\ UNCHANGED << UAVS, loop, orders_log, get >>
    /\ Observe

\* haversine(..., uav["lon"], lat, lon); eta_min = (dist / UAV_SPEED_KMH) * 60.0
EtaLon(o) ==
    /\ req[o].pc = "eta_lon"
    /\ LET ulon == UAVS[req[o].cell].lon
           dist == Haversine(req[o].ulat, ulon, req[o].pos[1], req[o].pos[2])
       IN  req' = [ req EXCEPT ![o].pc = "assign_target", ![o].ulon = ulon,
                               ![o].eta = EtaMin(dist) ]
    /\ UNCHANGED << UAVS, loop, orders_log, get >>
    /\ Observe

\* The dictionary {"lat": lat, "lon": lon} made by the handler of order o: a
\* new object each time, told from an equal one by the order that made it.
TargetOf(o) == << req[o].pos[1], req[o].pos[2], o >>

\* uav["target"] = {"lat": lat, "lon": lon}
AssignTarget(o) ==
    /\ req[o].pc = "assign_target"
    /\ UAVS' = [ UAVS EXCEPT ![req[o].cell].target = TargetOf(o) ]
    /\ req' = [ req EXCEPT ![o].pc = "assign_status" ]
    /\ UNCHANGED << loop, orders_log, get >>
    /\ Observe

\* uav["status"] = "delivering"
AssignStatus(o) ==
    /\ req[o].pc = "assign_status"
    /\ UAVS' = [ UAVS EXCEPT ![req[o].cell].status = "delivering" ]
    /\ req' = [ req EXCEPT ![o].pc = "log" ]
    /\ UNCHANGED << loop, orders_log, get >>
    /\ Observe

\* A faulty log_order: the file is opened for writing, not for appending.
TruncatingLogOrder(o) ==
    /\ req[o].pc = "log"
    /\ orders_log' = << [ order_id |-> o, uav_id |-> req[o].cell,
                          eta |-> Round2(req[o].eta) ] >>
    /\ req' = [ req EXCEPT ![o].pc = "respond" ]
    /\ UNCHANGED << UAVS, loop, get >>
    /\ Observe

\* log_order(order.order_id, order.place, uav_id, eta_min): one row appended
LogOrder(o) ==
    /\ req[o].pc = "log"
    /\ orders_log' = Append(orders_log,
                            [ order_id |-> o, uav_id |-> req[o].cell,
                              eta |-> Round2(req[o].eta) ])
    /\ req' = [ req EXCEPT ![o].pc = "respond" ]
    /\ UNCHANGED << UAVS, loop, get >>
    /\ Observe

\* return {..., "status": "accepted"}
Respond(o) ==
    /\ req[o].pc = "respond"
    /\ req' = Return(o, [ order_id |-> o, location |-> req[o].pos,
                          grid |-> req[o].cell, assigned_uav |-> req[o].cell,
                          eta_minutes |-> Round1(req[o].eta),
                          status |-> "accepted" ])
    /\ UNCHANGED << UAVS, loop, orders_log, get >>
    /\ Observe

\* ------------------------------------------------------------ specification

\* ------------------------------------------------------------ GET /uavs

\* GET /uavs requests answered in one run.
MaxListings == 1

\* get_uavs returns list(UAVS.values()): the UAV dictionaries themselves, in
\* insertion order.  The response encoder then walks the list and reads each
\* dictionary key by key, in the order init_uavs inserted them.
GetUavs ==
    /\ get.pc = "none"
    /\ get.n < MaxListings
    /\ get' = [ get EXCEPT !.pc = "lat", !.rec = None ]
    /\ UNCHANGED << UAVS, loop, req, orders_log >>
    /\ Observe

\* The encoder reads "lat" of the UAV it is at.
EncodeLat ==
    /\ get.pc = "lat"
    /\ get' = [ get EXCEPT !.pc = "lon", !.rec = << UAVS[get.u].lat >> ]
    /\ UNCHANGED << UAVS, loop, req, orders_log >>
    /\ Observe

\* The encoder reads "lon".
EncodeLon ==
    /\ get.pc = "lon"
    /\ get' = [ get EXCEPT !.pc = "status", !.rec = Append(@, UAVS[get.u].lon) ]
    /\ UNCHANGED << UAVS, loop, req, orders_log >>
    /\ Observe

\* The encoder reads "status".
EncodeStatus ==
    /\ get.pc = "status"
    /\ get' = [ get EXCEPT !.pc = "target", !.rec = Append(@, UAVS[get.u].status) ]
    /\ UNCHANGED << UAVS, loop, req, orders_log >>
    /\ Observe

\* The encoder reads "target": the record of this UAV is complete.
EncodeTarget ==
    /\ get.pc = "target"
    /\ get' = [ get EXCEPT !.pc = "emit",
                           !.rec = Shown([ lat |-> @[1], lon |-> @[2], status |-> @[3],
                                           target |-> UAVS[get.u].target ]) ]
    /\ UNCHANGED << UAVS, loop, req, orders_log >>
    /\ Observe

\* The encoder goes on to the next UAV of the list, or the response is sent.
EncodeNext ==
    /\ get.pc = "emit"
    /\ get' = IF HasNext(get.u)
              THEN [ get EXCEPT !.pc = "lat", !.u = NextUav(get.u), !.rec = None ]
              ELSE NoListing(get.n + 1)
    /\ UNCHANGED << UAVS, loop, req, orders_log >>
    /\ Observe

\* ------------------------------------------------------------ the program

\* A faulty movement thread: it waits while a geocoding call is pending.
StalledMovement ==
    /\ \A o \in Orders : req[o].pc # "geocode"
    /\ \/ CheckTarget \/ ReadTarget
       \/ ArriveLat \/ ArriveLon \/ ArriveStatus \/ ArriveTarget
       \/ MoveLat \/ MoveLon \/ Wake

\* The movement thread.
Movement ==
    \/ CheckTarget \/ ReadTarget
    \/ ArriveLat \/ ArriveLon \/ ArriveStatus \/ ArriveTarget
    \/ MoveLat \/ MoveLon \/ Wake

\* The handler of POST /order for order o.
Handler(o) ==
    \/ Post(o) \/ Geocode(o) \/ Locate(o)
    \/ EtaLat(o) \/ EtaLon(o) \/ AssignTarget(o) \/ AssignStatus(o)
    \/ LogOrder(o) \/ Respond(o)

Next == Movement \/ \E o \in Orders : Handler(o)

Spec == Init /\ [][Next]_vars

\* The movement thread is a thread of its own (threading.Thread, daemon) and
\* is scheduled again and again; nothing is assumed of the handlers, whose
\* geocoding calls may hang.
SpecTicking == Spec /\ WF_vars(Movement)

\* The movement thread and every handler thread are scheduled again and
\* again, and every geocoding call is answered.
SpecFair == SpecTicking /\ \A o \in Orders : WF_vars(Handler(o))

\* The thread answering GET /uavs.
Listing ==
    \/ GetUavs \/ EncodeLat \/ EncodeLon \/ EncodeStatus \/ EncodeTarget
    \/ EncodeNext

\* The program with a client that polls GET /uavs while the movement thread
\* runs and the first order is handled.
NextPolled == Movement \/ Handler(1) \/ Listing

SpecPolled == Init /\ [][NextPolled]_vars

\* ------------------------------------------------------------ claims

\* A UAV's target is present exactly when its status is delivering.
Consistent(u) == (u.target # None) <=> (u.status = "delivering")

\* The handler of order o has written the target of UAV v and not yet its status.
HandlerWriting(o, v) == req[o].cell = v /\ req[o].pc = "assign_status"

\* C1: every UAV has a target if and only if its status is delivering.  Stated
\* here for the states in which no thread is in the middle of its writes to
\* the UAV (no handler between its two writes, the loop not in its body for
\* it): what an assignment interleaved with an arrival tick leaves behind.
\* The claim also covers the states in between, where it fails inside a
\* single handler, between target := ... and status := delivering.
C1_TargetIffDelivering ==
    \A v \in Fleet :
        (~LoopOn(v) /\ \A o \in Orders : ~HandlerWriting(o, v)) => Consistent(UAVS[v])

\* C2: no handler is between its first read of a UAV and its last write to it
\* while the movement loop is between its check of that UAV's target and its
\* last write to it in the same tick.
C2_MutualExclusion ==
    \A v \in Fleet : \A o \in Orders : ~(HandlerOn(o, v) /\ LoopOn(v))

\* C3: no lost write: the tick that decided the arrival at target t sets the
\* status idle and clears the target only while the UAV's target still is the
\* dictionary t it read, never one written by an assignment it did not see.
C3_NoLostWrite ==
    [][ (loop.pc \in { "arrive_status", "arrive_target" } /\ loop' # loop)
          => UAVS[loop.u].target = loop.t ]_vars

\* C6: latlon_to_grid maps every position that passes the boundary check to a
\* cell of the grid init_uavs filled.
C6_GridCellInGrid ==
    \A o \in Orders :
        (req[o].pc = "locate" /\ InServiceArea(req[o].pos[1], req[o].pos[2]))
            => LatLonToGrid(req[o].pos[1], req[o].pos[2]) \in GridCells

\* C7: no handler ends in an unhandled error, and every handler that has
\* returned answered accepted, rejected or failed.
C7_AlwaysAnswers ==
    \A o \in Orders :
        /\ req[o].pc # "KeyError"
        /\ req[o].pc = "done" => req[o].resp.status \in { "accepted", "rejected", "failed" }

\* The row of orders_log.csv an order wrote, if any.
Logged(o) == \E i \in 1 .. Len(orders_log) : orders_log[i].order_id = o

\* The handler of order o returns in this step.
Returns(o) == req[o].pc # "done" /\ req'[o].pc = "done"

\* C5: when the second of two handlers that ran at the same time and were
\* assigned the same UAV returns, that UAV is delivering with the position of
\* one of the two orders as its target, and the log holds a row of each.
C5_ConcurrentAssignments ==
    [][ \A o \in Orders : \A q \in Orders \ { o } :
          ( /\ Returns(o)
            /\ req'[q].pc = "done"
            /\ { o, q } \in overlap
            /\ req'[o].resp.status = "accepted"
            /\ req'[q].resp.status = "accepted"
            /\ req'[o].resp.assigned_uav = req'[q].resp.assigned_uav )
          => LET u == UAVS'[req'[o].resp.assigned_uav]
             IN  /\ u.status = "delivering"
                 /\ u.target # None
                 /\ << u.target[1], u.target[2] >>
                        \in { req'[o].resp.location, req'[q].resp.location }
                 /\ Logged(o)' /\ Logged(q)' ]_vars

\* The UAV has reached p: idle, no target, at most the arrival threshold away.
Converged(u, p) ==
    /\ u.status = "idle"
    /\ u.target = None
    /\ Haversine(u.lat, u.lon, p[1], p[2]) < ARRIVE_CM

Max(a, b) == IF a >= b THEN a ELSE b

HandlerStep(o) == req'[o] # req[o]

\* C9: an order whose position p lies in the box, whose UAV V was idle when
\* the handler read it and was touched by neither the loop nor another handler
\* until the handler returned, leaves V delivering with target p where it
\* was, and is answered accepted with grid = latlon_to_grid(p), assigned_uav
\* = V and eta_minutes = distance(V before, p) / 40 * 60 rounded to one
\* decimal; no step of a handler changes a UAV other than its own.
C9_UncontendedAccepted ==
    [][ \A o \in Orders :
          /\ ( req[o].pc = "respond" /\ Returns(o) /\ calm[o] # None )
             => LET pre == calm[o][1]
                    p == req[o].pos
                    v == req[o].cell
                    r == req'[o].resp
                IN  /\ InServiceArea(p[1], p[2])
                    /\ UAVS'[v].status = "delivering"
                    /\ UAVS'[v].target # None
                    /\ << UAVS'[v].target[1], UAVS'[v].target[2] >> = p
                    /\ UAVS'[v].lat = pre.lat /\ UAVS'[v].lon = pre.lon
                    /\ r.status = "accepted"
                    /\ r.location = p
                    /\ r.grid = LatLonToGrid(p[1], p[2])
                    /\ r.assigned_uav = v /\ v = r.grid
                    /\ r.eta_minutes =
                         RoundDiv((Haversine(pre.lat, pre.lon, p[1], p[2]) * 60 * 1000)
                                      \div (40 * CmPerKm), 100) * 100
          /\ ( HandlerStep(o) /\ req[o].cell # None )
             => \A w \in Fleet \ { req[o].cell } : UAVS'[w] = UAVS[w] ]_vars

\* C9's case: an undisturbed handler of an order at some distance from its
\* idle UAV has assigned it and is about to return.
C9_Witness ==
    \E o \in Orders :
        /\ req[o].pc = "respond"
        /\ calm[o] # None
        /\ req[o].eta >= 50
        /\ UAVS[req[o].cell].status = "delivering"

\* C10: an order whose position lies outside the inclusive box is answered
\* rejected with that position as its location, and no step of its handler
\* changes any UAV.
C10_OutsideRejected ==
    [][ \A o \in Orders :
          /\ ( req[o].pc = "locate" /\ HandlerStep(o)
                 /\ ~( /\ LAT_MIN <= req[o].pos[1] /\ req[o].pos[1] <= LAT_MAX
                       /\ LON_MIN <= req[o].pos[2] /\ req[o].pos[2] <= LON_MAX ) )
             => /\ req'[o].pc = "done"
                /\ req'[o].resp.status = "rejected"
                /\ req'[o].resp.location = req[o].pos
          /\ ( HandlerStep(o) /\ req[o].pc \in { "none", "geocode", "locate" } )
             => UAVS' = UAVS ]_vars

\* C10's case: an order outside the box has been answered rejected.
C10_Witness ==
    \E o \in Orders :
        /\ req[o].pc = "done"
        /\ req[o].resp.status = "rejected"
        /\ ~InServiceArea(req[o].resp.location[1], req[o].resp.location[2])

\* C4: every record of a GET /uavs response is one the UAV held at some
\* instant while the record was being read, and is not a partially updated
\* one: it has a target exactly when it is delivering.
C4_ListingIsSnapshot ==
    get.pc = "emit" => ( get.rec \in held /\ Consistent(get.rec) )

\* C11: the queries of an order are made one at a time in their order, each
\* once; an answer with a match ends the lookup with that position, any
\* other answer (empty, timeout, exception, non-200) moves on to the next
\* query; the order is answered failed exactly when the last query too came
\* back without a match; no step of the lookup changes a UAV.
C11_FailedIffNoMatch ==
    [][ \A o \in Orders :
          /\ ( HandlerStep(o) /\ req[o].pc = "none" ) => req'[o].q = 1
          /\ ( HandlerStep(o) /\ req[o].pc = "geocode" )
             => /\ heard' # None
                /\ heard'[1] = o /\ heard'[2] = req[o].q
                /\ req[o].q \in 1 .. NumQueries
                /\ UAVS' = UAVS
                /\ IF heard'[3] \in Places
                   THEN req'[o].pc = "locate" /\ req'[o].pos = heard'[3]
                   ELSE IF req[o].q < NumQueries
                   THEN req'[o].pc = "geocode" /\ req'[o].q = req[o].q + 1
                   ELSE Returns(o) /\ req'[o].resp.status = "failed"
          /\ ( Returns(o) /\ req'[o].resp.status = "failed" )
             => /\ req[o].pc = "geocode" /\ req[o].q = NumQueries
                /\ heard' # None /\ heard'[3] \notin Places ]_vars

\* C11's case: an order has been answered failed after its last query timed
\* out, while some UAV was delivering.
C11_Witness ==
    \E o \in Orders :
        /\ req[o].pc = "done"
        /\ req[o].resp.status = "failed"
        /\ heard = << o, NumQueries, Failure >>
        /\ \E v \in Fleet : UAVS[v].status = "delivering"

\* C12: whatever the handlers do, blocked in a geocoding call for ever
\* included, the movement loop completes pass after pass, and every UAV with
\* a target is in time written by a tick: moved, or set on its target.
C12_LoopNeverStalls ==
    /\ []<>(loop.pc = "sleep")
    /\ \A v \in Fleet :
         (UAVS[v].target # None)
             ~> ( /\ loop.u = v
                  /\ loop.pc \in { "move_lon", "arrive_lon", "arrive_status",
                                    "arrive_target" } )

\* C12's case: the loop is moving a UAV while a handler is blocked in a
\* geocoding call.
C12_Witness ==
    /\ \E o \in Orders : req[o].pc = "geocode"
    /\ loop.pc = "move_lon"
    /\ UAVS[loop.u].lat # InitUav(loop.u).lat

\* 0.05 km in centimetres.
Threshold == (5 * CmPerKm) \div 100

\* The loop takes this step.
LoopStep == loop' # loop

\* C13: a UAV goes from delivering to idle, and loses its target, only by
\* the write of a tick that measured less than 0.05 km to the target it read
\* and has set the UAV exactly on that target; the tick takes the arrival
\* branch exactly when it measured less than 0.05 km; a tick that measured
\* more changes neither status nor target.
C13_SoleArrival ==
    [][ /\ \A v \in Fleet :
             /\ ( UAVS[v].status = "delivering" /\ UAVS'[v].status = "idle" )
                => /\ LoopStep /\ loop.u = v /\ loop.pc = "arrive_status"
                   /\ loop.dist < Threshold
                   /\ UAVS[v].lat = loop.t[1] /\ UAVS[v].lon = loop.t[2]
             /\ ( UAVS[v].target # None /\ UAVS'[v].target = None )
                => /\ LoopStep /\ loop.u = v /\ loop.pc = "arrive_target"
                   /\ loop.dist < Threshold
                   /\ UAVS[v].lat = loop.t[1] /\ UAVS[v].lon = loop.t[2]
        /\ ( LoopStep /\ loop.pc = "read_target" )
             => /\ loop'.t = UAVS[loop.u].target
                /\ loop'.dist = Haversine(UAVS[loop.u].lat, UAVS[loop.u].lon,
                                          loop'.t[1], loop'.t[2])
                /\ loop'.pc = IF loop'.dist < Threshold THEN "arrive_lat" ELSE "move_lat"
        /\ ( LoopStep /\ loop.pc \in { "move_lat", "move_lon" } )
             => /\ loop.dist >= Threshold
                /\ \A v \in Fleet : /\ UAVS'[v].status = UAVS[v].status
                                    /\ UAVS'[v].target = UAVS[v].target ]_vars

\* C13's case: a tick that measured a distance below the threshold has set
\* the UAV on its target and idle, and is about to clear the target.
C13_Witness ==
    /\ loop.pc = "arrive_target"
    /\ loop.dist > 0 /\ loop.dist < Threshold
    /\ UAVS[loop.u].status = "idle"
    /\ UAVS[loop.u].target = loop.t
    /\ UAVS[loop.u].lat = loop.t[1] /\ UAVS[loop.u].lon = loop.t[2]

\* The rows of orders_log.csv written for order o.
Rows(log, o) == { i \in 1 .. Len(log) : log[i].order_id = o }

\* C14: the log only grows, by one row at a time and at its end; a row is
\* written by the handler of its order, for the UAV it assigned, after both
\* writes of the assignment and before the response; an order answered
\* accepted has exactly one row, an order answered rejected or failed none.
C14_LogAppendOnly ==
    [][ /\ \/ orders_log' = orders_log
           \/ \E o \in Orders :
                /\ req[o].pc = "log" /\ req'[o].pc = "respond"
                /\ Len(orders_log') = Len(orders_log) + 1
                /\ SubSeq(orders_log', 1, Len(orders_log)) = orders_log
                /\ orders_log'[Len(orders_log')].order_id = o
                /\ orders_log'[Len(orders_log')].uav_id = req[o].cell
                /\ Rows(orders_log, o) = { }
        /\ \A o \in Orders :
             /\ ( HandlerStep(o) /\ req[o].pc = "assign_status" ) => req'[o].pc = "log"
             /\ Returns(o)
                => Cardinality(Rows(orders_log', o))
                     = IF req'[o].resp.status = "accepted" THEN 1 ELSE 0
             /\ req'[o].pc \in { "none", "KeyError" } => Rows(orders_log', o) = { } ]_vars

\* C14's case: an order has been answered accepted with its row written
\* after the row of another order.
C14_Witness ==
    /\ Len(orders_log) = 2
    /\ \E o \in Orders :
         /\ req[o].pc = "done" /\ req[o].resp.status = "accepted"
         /\ orders_log[2].order_id = o
         /\ orders_log[1].order_id # o

\* The handler of order o has made both writes of its assignment.
Assigned(o) == req[o].pc \in { "log", "respond", "done" }

\* C15: an order for a UAV that has a target is accepted like any other and
\* replaces the target; from then on the loop moves the UAV toward the new
\* target only: every write of a position by the loop, once the assignments
\* that made the UAV's present target and the one the loop read are
\* complete, moves the UAV toward, or sets it on, the position of the
\* present target, never that of an earlier one.
C15_OverwriteOnBusy ==
    [][ /\ \A o \in Orders :
             ( Returns(o) /\ req[o].pc = "respond" ) => req'[o].resp.status = "accepted"
        /\ ( /\ LoopStep
             /\ loop.pc \in { "arrive_lat", "arrive_lon", "move_lat", "move_lon" }
             /\ UAVS[loop.u].target # None
             /\ UAVS[loop.u].status = "delivering"
             /\ Assigned(UAVS[loop.u].target[3])
             /\ Assigned(loop.t[3]) )
           => ( /\ UAVS[loop.u].target[1] = loop.t[1]
                /\ UAVS[loop.u].target[2] = loop.t[2] ) ]_vars

\* The rows of orders_log.csv that name UAV v.
RowsOf(v) == { i \in 1 .. Len(orders_log) : orders_log[i].uav_id = v }

\* C16: the rows of a UAV are in the order in which the targets were written
\* to it: whenever every handler that has written a target to the UAV has
\* also written its row, the last row naming the UAV is the row of the order
\* whose target the UAV holds.
C16_LogFollowsCommits ==
    \A v \in Fleet :
        ( /\ UAVS[v].target # None
          /\ \A o \in Orders : req[o].cell = v => req[o].pc \notin { "assign_status", "log" } )
        => /\ RowsOf(v) # { }
           /\ \E i \in RowsOf(v) :
                /\ \A j \in RowsOf(v) : j <= i
                /\ orders_log[i].order_id = UAVS[v].target[3]

\* C17: the UAVs are the same set for ever; a step of the loop writes no
\* UAV but the one it is at; it writes nothing when it finds no target, and
\* nothing while it checks, measures or sleeps; in the move branch it writes
\* the latitude, then the longitude, and neither status nor target.
C17_TickFrame ==
    [][ /\ DOMAIN UAVS' = DOMAIN UAVS
        /\ LoopStep
           => /\ \A w \in Fleet \ { loop.u } : UAVS'[w] = UAVS[w]
              /\ loop.pc \in { "check", "read_target", "sleep" } => UAVS' = UAVS
              /\ ( loop.pc = "check" /\ UAVS[loop.u].target = None )
                 => loop'.pc \in { "check", "sleep" }
              /\ loop.pc = "move_lat"
                 => UAVS'[loop.u] = [ UAVS[loop.u] EXCEPT !.lat = UAVS'[loop.u].lat ]
              /\ loop.pc = "move_lon"
                 => UAVS'[loop.u] = [ UAVS[loop.u] EXCEPT !.lon = UAVS'[loop.u].lon ] ]_vars

\* C17's case: a move tick has been completed for a UAV, which is where the
\* tick put it, delivering with its target, while another UAV has no target
\* and is as init_uavs made it.
C17_Witness ==
    \E v \in Fleet : \E w \in Fleet \ { v } :
        /\ UAVS[v].status = "delivering" /\ UAVS[v].target # None
        /\ UAVS[v].lat # InitUav(v).lat /\ UAVS[v].lon # InitUav(v).lon
        /\ ~LoopOn(v)
        /\ UAVS[w] = InitUav(w)
        /\ loop.u = w /\ loop.pc = "check"

\* x is on the segment from a to b.
Between(x, a, b) == (a <= x /\ x <= b) \/ (b <= x /\ x <= a)

\* 40 / 3600 km in centimetres.
StepPerTick == (40 * CmPerKm) \div 3600

\* Targets around a UAV, as offsets in microdegrees (up to 2.2 km away).
Offsets == { -20000, -900, -450, 0, 450, 900, 20000 }

\* One move of lines 135-137 from the centre of a cell toward each of the
\* targets around it that is not within the arrival threshold: the UAV stays
\* on the segment and ends nearer to the target.
MoveShrinks ==
    \A dlat \in Offsets : \A dlon \in Offsets :
        LET lat0 == CenterLat(7)
            lon0 == CenterLon(6)
            tlat == lat0 + dlat
            tlon == lon0 + dlon
            d    == Haversine(lat0, lon0, tlat, tlon)
            lat1 == Step(lat0, tlat, d)
            lon1 == Step(lon0, tlon, d)
        IN  d >= Threshold
            => /\ Between(lat1, lat0, tlat) /\ Between(lon1, lon0, tlon)
               /\ Haversine(lat1, lon1, tlat, tlon) < d

\* C18: the step is shorter than the arrival threshold; in every move tick
\* it is shorter than the distance measured, each coordinate stays between
\* its old value and the target's, and, the target being the one the tick
\* read, the UAV ends nearer to it than the tick measured.
C18_NoOvershoot ==
    [][ /\ StepPerTick < Threshold
        /\ MoveShrinks
        /\ ( LoopStep /\ loop.pc = "move_lat" )
           => /\ StepPerTick < loop.dist
              /\ Between(UAVS'[loop.u].lat, UAVS[loop.u].lat, loop.t[1])
        /\ ( LoopStep /\ loop.pc = "move_lon" )
           => /\ Between(UAVS'[loop.u].lon, UAVS[loop.u].lon, loop.t[2])
              /\ Haversine(UAVS'[loop.u].lat, UAVS'[loop.u].lon, loop.t[1], loop.t[2])
                   < loop.dist ]_vars

\* C18's case: a move tick has brought a UAV nearer to its target without
\* reaching it.
C18_Witness ==
    \E v \in Fleet :
        /\ ~LoopOn(v)
        /\ UAVS[v].target # None
        /\ UAVS[v].lat # InitUav(v).lat
        /\ UAVS[v].lat # UAVS[v].target[1] /\ UAVS[v].lon # UAVS[v].target[2]
        /\ Haversine(UAVS[v].lat, UAVS[v].lon, UAVS[v].target[1], UAVS[v].target[2])
             < Haversine(InitUav(v).lat, InitUav(v).lon,
                         UAVS[v].target[1], UAVS[v].target[2])

\* C19: every UAV is in its own cell, and so is its target when it has one.
C19_StaysInCell ==
    \A v \in Fleet :
        /\ LatLonToGrid(UAVS[v].lat, UAVS[v].lon) = v
        /\ UAVS[v].target # None
           => LatLonToGrid(UAVS[v].target[1], UAVS[v].target[2]) = v

\* C19's case: a UAV that has flown to one place of its cell is on its way
\* to another, between the two.
C19_Witness ==
    \E v \in Fleet :
        /\ UAVS[v].target # None
        /\ ~LoopOn(v)
        /\ UAVS[v].lat \notin { InitUav(v).lat, PlaceNear[1], PlaceAlso[1], PlaceFar[1] }
        /\ UAVS[v].lon \notin { InitUav(v).lon, PlaceNear[2], PlaceAlso[2], PlaceFar[2] }
        /\ \E p \in { PlaceNear, PlaceAlso } :
             /\ Between(UAVS[v].lat, p[1], UAVS[v].target[1])
             /\ Between(UAVS[v].lon, p[2], UAVS[v].target[2])
             /\ << UAVS[v].target[1], UAVS[v].target[2] >> # p

\* C20: with the movement thread and the handlers scheduled fairly, every
\* UAV that is delivering is idle at some later time.
C20_DeliveryTerminates ==
    \A v \in Fleet : (UAVS[v].status = "delivering") ~> (UAVS[v].status = "idle")

====
